---- MODULE Spec2Model ----
(***************************************************************************)
(* Model of the bus tracker firmware of Complete_GPS_Bus_Tracker.ino       *)
(* (lines 1-1077): setup(), the control loop and the handlers it calls.    *)
(*                                                                         *)
(* Units.  Time is millis() in milliseconds.  Coordinates are in tenths of *)
(* a degree, speeds in tenths of a km/h, HDOP in hundredths, so that the   *)
(* comparisons of the source are integer comparisons here.                 *)
(*                                                                         *)
(* Strings received from the modem are sequences of words; indexOf(x) > -1 *)
(* is the occurrence of the words of x as a contiguous run.                *)
(***************************************************************************)
EXTENDS Integers, Sequences, FiniteSets, TLC

\* ------------------------------------------------------------ constants

GPS_TIMEOUT == 180000
NORMAL_SEND_INTERVAL == 300000
TRACKING_SEND_INTERVAL == 60000
EMERGENCY_INTERVAL == 30000
HEALTH_CHECK_INTERVAL == 60000
SPEED_LIMIT == 800
MIN_VALID_SPEED == 0
MAX_VALID_SPEED == 2000
MIN_SATELLITES == 4
HDOP_THRESHOLD == 200
MAX_LATITUDE == 900
MAX_LONGITUDE == 1800
GPS_LOST_AFTER == 30000
SPEED_ALERT_WINDOW == 60000
ERROR_CAPACITY == 10
LOOP_DELAY == 100
WDT_TIMEOUT == 30000
SMS_CEILING == 100000
ERRORS_CEILING == 100000
MAXSPEED_CEILING == 500

\* --------------------------------------------------------------- bounds

\* A run is explored up to this uptime (ms); a run with samples or inbound
\* messages up to the shorter one.
MaxTime == 200000
MaxBusyTime == 100000
\* logError calls explored per boot.
MaxLogged == 12
\* Samples decoded, inbound messages, restarts and presses of the test
\* button per run.
MaxSamples == 3
MaxInbound == 2
MaxBoots == 1
MaxPresses == 1
\* Handlers per run in which the modem answers late or not at all.
MaxFaults == 1

\* ------------------------------------------------------------ variables

VARIABLES
  pc,               \* position of the control flow
  now,              \* millis()
  gpsFixed, gsmReady, systemHealthy, emergencyMode, trackingMode,
  lastSendTime, lastHealthCheck, lastSpeedAlert, lastGPSRead,
  ledBlinkPattern,
  latitude, longitude, altitude, speed, satellites, hdop,
  totalSMSSent, totalErrors, maxSpeed, lastError,
  errorHistory, errorIndex,
  eeprom,           \* the three persisted fields
  gsmRx,            \* words received from the modem and not yet read
  modemOwes,        \* replies the modem has not produced yet
  outstanding,      \* the command written last whose reply is still open
  openUntil,        \* when the wait for that reply ends
  store,            \* the modem's message store: index -> body
  gpsBuf,           \* samples decoded from the GPS link and not yet read
  budget,           \* what the environment may still do in this run
  logged,           \* logError calls since boot
  appended,         \* the records of those calls, oldest first
  lastAccepted,     \* millis() at the last accepted sample, 0 before it
  wdtFed,           \* millis() when the watchdog was armed or acknowledged last
  blocked,          \* ms spent in modem operations since then
  checked,          \* the statistics at the end of the last health check
  network,          \* the modem's card and registration: what it reports
  panicPressed,     \* Enhanced sketch: the panic button was down at the last poll
  boots,            \* restarts so far
  ev                \* what the step just taken did (observation only)

vars == <<pc, now, gpsFixed, gsmReady, systemHealthy, emergencyMode,
          trackingMode, lastSendTime, lastHealthCheck, lastSpeedAlert,
          lastGPSRead, ledBlinkPattern, latitude, longitude, altitude, speed,
          satellites, hdop, totalSMSSent, totalErrors, maxSpeed, lastError,
          errorHistory, errorIndex, eeprom, gsmRx, modemOwes, outstanding,
          openUntil, store, gpsBuf, budget, logged, appended, lastAccepted,
          wdtFed, blocked, checked, network, panicPressed, boots, ev>>

\* The state as one record, so that a handler is the composition of the
\* functions it calls.
Cur ==
  [now |-> now, gpsFixed |-> gpsFixed, gsmReady |-> gsmReady,
   systemHealthy |-> systemHealthy, emergencyMode |-> emergencyMode,
   trackingMode |-> trackingMode, lastSendTime |-> lastSendTime,
   lastHealthCheck |-> lastHealthCheck, lastSpeedAlert |-> lastSpeedAlert,
   lastGPSRead |-> lastGPSRead, ledBlinkPattern |-> ledBlinkPattern,
   latitude |-> latitude, longitude |-> longitude, altitude |-> altitude,
   speed |-> speed, satellites |-> satellites, hdop |-> hdop,
   totalSMSSent |-> totalSMSSent, totalErrors |-> totalErrors,
   maxSpeed |-> maxSpeed, lastError |-> lastError,
   errorHistory |-> errorHistory, errorIndex |-> errorIndex,
   eeprom |-> eeprom, gsmRx |-> gsmRx, modemOwes |-> modemOwes,
   store |-> store, gpsBuf |-> gpsBuf, logged |-> logged,
   appended |-> appended, lastAccepted |-> lastAccepted,
   wdtFed |-> wdtFed, blocked |-> blocked, checked |-> checked,
   network |-> network, panicPressed |-> panicPressed,
   outstanding |-> outstanding,
   openUntil |-> openUntil, ev |-> ev,
   resp |-> <<>>, ok |-> FALSE]

Commit(s) ==
  /\ now' = s.now /\ gpsFixed' = s.gpsFixed /\ gsmReady' = s.gsmReady
  /\ systemHealthy' = s.systemHealthy /\ emergencyMode' = s.emergencyMode
  /\ trackingMode' = s.trackingMode /\ lastSendTime' = s.lastSendTime
  /\ lastHealthCheck' = s.lastHealthCheck /\ lastSpeedAlert' = s.lastSpeedAlert
  /\ lastGPSRead' = s.lastGPSRead /\ ledBlinkPattern' = s.ledBlinkPattern
  /\ latitude' = s.latitude /\ longitude' = s.longitude
  /\ altitude' = s.altitude /\ speed' = s.speed
  /\ satellites' = s.satellites /\ hdop' = s.hdop
  /\ totalSMSSent' = s.totalSMSSent /\ totalErrors' = s.totalErrors
  /\ maxSpeed' = s.maxSpeed /\ lastError' = s.lastError
  /\ errorHistory' = s.errorHistory /\ errorIndex' = s.errorIndex
  /\ eeprom' = s.eeprom /\ gsmRx' = s.gsmRx /\ modemOwes' = s.modemOwes
  /\ outstanding' = s.outstanding /\ openUntil' = s.openUntil /\ ev' = s.ev
  /\ appended' = s.appended /\ lastAccepted' = s.lastAccepted
  /\ wdtFed' = s.wdtFed /\ blocked' = s.blocked /\ checked' = s.checked
  /\ network' = s.network /\ panicPressed' = s.panicPressed
  /\ store' = s.store /\ gpsBuf' = s.gpsBuf /\ logged' = s.logged

\* The observation of one step: the operation, the errors it logged, the
\* messages it submitted to the modem, the commands it wrote.
NoEvent(op) ==
  [op |-> op, logged |-> 0, sms |-> <<>>, cmds |-> <<>>, overlap |-> <<>>,
   sample |-> "none", alert |-> FALSE, report |-> "none", health |-> FALSE,
   verb |-> "none", read |-> <<>>, interval |-> 0, outcomes |-> <<>>,
   probe |-> "none", modemHealthy |-> FALSE, reset |-> FALSE,
   answered |-> <<>>, press |-> FALSE, marks |-> <<FALSE, FALSE>>,
   text |-> <<>>, was |-> <<FALSE, FALSE>>]

Begin(s, op) == [s EXCEPT !.ev = NoEvent(op)]

\* F applied to e: the value of e is computed once and named in F.
Then(e, F(_)) == F(e)

\* ------------------------------------------------------------ error log

EmptyRecord == [errorType |-> "", errorMessage |-> "", timestamp |-> 0]

\* logError with the write index running on past the end of the ring.
logErrorNoWrap(s, errorType, errorMessage) ==
  LET record == [errorType |-> errorType, errorMessage |-> errorMessage,
                 timestamp |-> s.now]
  IN  [s EXCEPT
         !.totalErrors = s.totalErrors + 1,
         !.lastError = <<errorType, errorMessage>>,
         !.errorHistory = [s.errorHistory EXCEPT ![s.errorIndex + 1] = record],
         !.errorIndex = s.errorIndex + 1,
         !.logged = s.logged + 1,
         !.appended = Append(s.appended, record),
         !.ev = [s.ev EXCEPT !.logged = s.ev.logged + 1]]

\* The ring is indexed from 0 in the code and from 1 here.
logError(s, errorType, errorMessage) ==
  LET record == [errorType |-> errorType, errorMessage |-> errorMessage,
                 timestamp |-> s.now]
  IN  [s EXCEPT
         !.totalErrors = s.totalErrors + 1,
         !.lastError = <<errorType, errorMessage>>,
         !.errorHistory = [s.errorHistory EXCEPT ![s.errorIndex + 1] = record],
         !.errorIndex = (s.errorIndex + 1) % ERROR_CAPACITY,
         !.logged = s.logged + 1,
         !.appended = Append(s.appended, record),
         !.ev = [s.ev EXCEPT !.logged = s.ev.logged + 1]]

\* ------------------------------------------------------------------ GPS

Abs(x) == IF x > 0 THEN x ELSE -x

\* isValidGPSData with the HDOP limit itself refused.
isValidGPSDataStrict(s) ==
  /\ ~(s.latitude = 0 /\ s.longitude = 0)
  /\ ~(Abs(s.latitude) > MAX_LATITUDE \/ Abs(s.longitude) > MAX_LONGITUDE)
  /\ ~(s.speed < MIN_VALID_SPEED \/ s.speed > MAX_VALID_SPEED)
  /\ ~(s.satellites < MIN_SATELLITES)
  /\ ~(s.hdop >= HDOP_THRESHOLD)

isValidGPSData(s) ==
  /\ ~(s.latitude = 0 /\ s.longitude = 0)
  /\ ~(Abs(s.latitude) > MAX_LATITUDE \/ Abs(s.longitude) > MAX_LONGITUDE)
  /\ ~(s.speed < MIN_VALID_SPEED \/ s.speed > MAX_VALID_SPEED)
  /\ ~(s.satellites < MIN_SATELLITES)
  /\ ~(s.hdop > HDOP_THRESHOLD)

\* ---------------------------------------------------------------- words

\* String::indexOf on a sequence of words: the position of the first
\* occurrence of `phrase`, counted from 0, or -1.
Occurs(text, phrase, i) ==
  /\ i + Len(phrase) - 1 <= Len(text)
  /\ SubSeq(text, i, i + Len(phrase) - 1) = phrase

indexOf(text, phrase) ==
  IF \E i \in 1..Len(text) : Occurs(text, phrase, i)
  THEN (CHOOSE i \in 1..Len(text) :
          /\ Occurs(text, phrase, i)
          /\ \A j \in 1..(i - 1) : ~Occurs(text, phrase, j)) - 1
  ELSE -1

\* String::toUpperCase, word by word.
UpperWord(w) ==
  CASE w = "track" -> "TRACK"
    [] w = "on" -> "ON"
    [] w = "off" -> "OFF"
    [] w = "status" -> "STATUS"
    [] w = "hello" -> "HELLO"
    [] OTHER -> w

\* toUpperCase leaving the text as it was typed.
toUpperCaseKeep(text) == text

toUpperCase(text) == [i \in 1..Len(text) |-> UpperWord(text[i])]

\* indexOf(",1") > -1 || indexOf(",5") > -1 on a reply.
RegisteredWords == {"+CREG: 0,1", "+CREG: 0,5", "+CMTI: SM,1"}

\* The number after the first comma of a text (indexOf(",") + 1, toInt).
CommaWords == {"+CMTI: SM,1", "+CMTI: SM,2", "+CREG: 0,1", "+CREG: 0,2",
               "+CREG: 0,5", "+CSQ: 20,0"}

CommaInt(w) ==
  CASE w \in {"+CMTI: SM,1", "+CREG: 0,1"} -> 1
    [] w \in {"+CMTI: SM,2", "+CREG: 0,2"} -> 2
    [] w = "+CREG: 0,5" -> 5
    [] OTHER -> 0

\* substring(indexOf(",") + 1).toInt(): with no comma, indexOf is -1 and the
\* text is read from its start, which is no digit in any reply: 0.
AfterFirstComma(text) ==
  IF \E i \in 1..Len(text) : text[i] \in CommaWords
  THEN CommaInt(text[CHOOSE i \in 1..Len(text) :
                      /\ text[i] \in CommaWords
                      /\ \A j \in 1..(i - 1) : text[j] \notin CommaWords])
  ELSE 0

Notification(idx) == IF idx = 1 THEN "+CMTI: SM,1" ELSE "+CMTI: SM,2"

\* ---------------------------------------------------------------- modem

\* How the modem answers during one handler: at once, after the handler's
\* read windows have closed, or not at all.
ModemBehaviours == {"prompt", "late", "silent"}

NoBody == <<>>

\* The modem has no card, is searching for a network, or is registered.
Networks == {"nosim", "searching", "registered"}

ReplyTo(s, cmd, arg) ==
  CASE cmd = "AT+CMGR" ->
         IF arg \notin DOMAIN s.store THEN <<"ERROR">>
         ELSE IF s.store[arg] = NoBody THEN <<"OK">>
         ELSE <<"+CMGR:">> \o s.store[arg] \o <<"OK">>
    [] cmd = "AT+CPIN?" ->
         IF s.network = "nosim" THEN <<"ERROR">>
         ELSE <<"+CPIN:", "READY", "OK">>
    [] cmd = "AT+CREG?" ->
         IF s.network = "registered" THEN <<"+CREG: 0,1", "OK">>
         ELSE <<"+CREG: 0,2", "OK">>
    [] cmd = "AT+CSQ" -> <<"+CSQ: 20,0", "OK">>
    [] cmd = "AT+CMGS" ->
         IF s.network = "registered" THEN <<"+CMGS:", "OK">>
         ELSE <<"ERROR">>
    [] OTHER -> <<"OK">>

\* gsmSerial.println(command): the command goes out on the link, and the
\* caller is about to wait `window` ms for its reply.  The step records a
\* command written while the wait for the previous one has not ended and its
\* reply has not been classified.
WriteCommand(s, cmd, arg, window) ==
  [s EXCEPT
     !.outstanding = cmd,
     !.openUntil = s.now + window,
     !.ev = [s.ev EXCEPT
               !.cmds = Append(s.ev.cmds, <<cmd, arg>>),
               !.overlap = IF s.outstanding # "none" /\ s.now < s.openUntil
                           THEN Append(s.ev.overlap, <<s.outstanding, cmd>>)
                           ELSE s.ev.overlap]]

\* What the modem sends while the caller waits for the reply to `cmd`.
Arrives(s, cmd, arg, mb) ==
  IF mb = "prompt" THEN ReplyTo(s, cmd, arg) ELSE <<>>

Owed(s, cmd, arg, mb) ==
  IF mb = "late" THEN s.modemOwes \o ReplyTo(s, cmd, arg) ELSE s.modemOwes

\* ReadWindow returning at once, without the wait.
ReadWindowNoWait(s, cmd, arg, window, mb) ==
  [s EXCEPT
     !.resp = s.gsmRx \o Arrives(s, cmd, arg, mb),
     !.gsmRx = <<>>,
     !.modemOwes = Owed(s, cmd, arg, mb)]

\* while (millis() - startTime < timeout) { if available: response += read }
\* Everything in the receive buffer and everything that arrives in the window
\* is read; the call returns when the window has closed.
ReadWindow(s, cmd, arg, window, mb) ==
  [s EXCEPT
     !.resp = s.gsmRx \o Arrives(s, cmd, arg, mb),
     !.gsmRx = <<>>,
     !.modemOwes = Owed(s, cmd, arg, mb),
     !.now = s.now + window,
     !.blocked = s.blocked + window]

sendATCommand(s, cmd, timeout, mb) ==
  ReadWindow(WriteCommand(s, cmd, 0, timeout), cmd, 0, timeout, mb)

testGSMConnection(s, mb) ==
  Then(sendATCommand(s, "AT", 1000, mb),
       LAMBDA r : [r EXCEPT !.ok = indexOf(r.resp, <<"OK">>) > -1])

\* ----------------------------------------------------------------- send

FirstVerdict(text) ==
  IF \E i \in 1..Len(text) : text[i] \in {"OK", "ERROR"}
  THEN CHOOSE i \in 1..Len(text) :
         /\ text[i] \in {"OK", "ERROR"}
         /\ \A j \in 1..(i - 1) : text[j] \notin {"OK", "ERROR"}
  ELSE 0

Outcome(s, o) == [s EXCEPT !.ev = [s.ev EXCEPT !.outcomes = Append(@, o)]]

\* The step notes, for each call of sendSMS, whether the modem answered the
\* submission while the call was reading.
Answered(s, a) == [s EXCEPT !.ev = [s.ev EXCEPT !.answered = Append(@, a)]]

\* The reading loop of sendSMS marking the modem not ready when it gives up
\* after 15 s.
readVerdictGivesUp(sub, text, v) ==
  IF v > 0 /\ text[v] = "OK"
  THEN [Outcome(sub, "success") EXCEPT
          !.gsmRx = SubSeq(text, v + 1, Len(text)),
          !.outstanding = "none", !.ok = TRUE]
  ELSE IF v > 0
  THEN [logError([Outcome(sub, "failed") EXCEPT
                    !.gsmRx = SubSeq(text, v + 1, Len(text)),
                    !.outstanding = "none"],
                 "SMS", "Send failed") EXCEPT !.ok = FALSE]
  ELSE [logError([Outcome(sub, "timeout") EXCEPT
                    !.gsmRx = <<>>, !.now = sub.now + 15000,
                    !.blocked = sub.blocked + 15000, !.gsmReady = FALSE],
                 "SMS", "Send timeout") EXCEPT !.ok = FALSE]

\* The reading loop of sendSMS: the reply is read byte by byte until OK or
\* ERROR shows, for 15 s at most.  `text` is what can be read in that time,
\* v the place of the first OK or ERROR in it.
readVerdict(sub, text, v) ==
  IF v > 0 /\ text[v] = "OK"
  THEN [Outcome(sub, "success") EXCEPT
          !.gsmRx = SubSeq(text, v + 1, Len(text)),
          !.outstanding = "none", !.ok = TRUE]
  ELSE IF v > 0
  THEN [logError([Outcome(sub, "failed") EXCEPT
                    !.gsmRx = SubSeq(text, v + 1, Len(text)),
                    !.outstanding = "none"],
                 "SMS", "Send failed") EXCEPT !.ok = FALSE]
  ELSE [logError([Outcome(sub, "timeout") EXCEPT
                    !.gsmRx = <<>>, !.now = sub.now + 15000,
                    !.blocked = sub.blocked + 15000],
                 "SMS", "Send timeout") EXCEPT !.ok = FALSE]

\* sendSMS without the test of gsmReady.
sendSMSUnchecked(s, phoneNumber, kind, mb) ==
  Then([WriteCommand(Answered(s, mb = "prompt"), "AT+CMGS", 0, 4000 + 15000)
        EXCEPT
          !.ev = [@ EXCEPT !.sms = Append(@, <<phoneNumber, kind>>)],
          !.now = @ + 4000,
          !.blocked = @ + 4000,
          !.modemOwes = Owed(s, "AT+CMGS", 0, mb)],
       LAMBDA sub :
         Then(sub.gsmRx \o Arrives(s, "AT+CMGS", 0, mb),
              LAMBDA text : readVerdict(sub, text, FirstVerdict(text))))

\* sendSMS: refused when the modem is not ready; otherwise AT+CMGS, the text
\* and Ctrl+Z are written with 4 s of delays, and the reply is read.
sendSMS(s, phoneNumber, kind, mb) ==
  IF ~s.gsmReady
  THEN [logError(Outcome(Answered(s, FALSE), "refused"),
                 "SMS", "GSM not ready for SMS")
          EXCEPT !.ok = FALSE]
  ELSE
    Then([WriteCommand(Answered(s, mb = "prompt"), "AT+CMGS", 0, 4000 + 15000)
          EXCEPT
            !.ev = [@ EXCEPT !.sms = Append(@, <<phoneNumber, kind>>)],
            !.now = @ + 4000,
            !.blocked = @ + 4000,
            !.modemOwes = Owed(s, "AT+CMGS", 0, mb)],
         LAMBDA sub :
           Then(sub.gsmRx \o Arrives(s, "AT+CMGS", 0, mb),
                LAMBDA text : readVerdict(sub, text, FirstVerdict(text))))

ADMIN_PHONE == "admin"
BACKUP_PHONE == "backup"
EMERGENCY_PHONE == "emergency"

\* sendLocationUpdate writing the tracking annotation only when the
\* emergency one is not written.
sendLocationUpdateOneNote(s, reason, mb) ==
  Then(sendSMS([s EXCEPT !.ev = [@ EXCEPT
                                   !.report = reason,
                                   !.marks = <<s.emergencyMode,
                                               s.trackingMode
                                                 /\ ~s.emergencyMode>>]],
               ADMIN_PHONE, "location", mb),
       LAMBDA r : IF r.ok
                  THEN [r EXCEPT !.totalSMSSent = @ + 1]
                  ELSE logError(r, "SMS", "Failed to send location update"))

\* The step notes the two annotations of the report: emergency mode active,
\* enhanced tracking enabled.
sendLocationUpdate(s, reason, mb) ==
  Then(sendSMS([s EXCEPT !.ev = [@ EXCEPT
                                   !.report = reason,
                                   !.marks = <<s.emergencyMode,
                                               s.trackingMode>>]],
               ADMIN_PHONE, "location", mb),
       LAMBDA r : IF r.ok
                  THEN [r EXCEPT !.totalSMSSent = @ + 1]
                  ELSE logError(r, "SMS", "Failed to send location update"))

\* -------------------------------------------------------- notifications

sendSystemStatus(s, mb) == sendSMS(s, ADMIN_PHONE, "status", mb)

sendHelpMessage(s, mb) == sendSMS(s, ADMIN_PHONE, "help", mb)

sendStartupNotification(s, mb) == sendSMS(s, ADMIN_PHONE, "startup", mb)

\* The alert names the GPS when gpsFixed is false and the modem when gsmReady
\* is false; it goes to the admin and, the backup number being configured
\* (strlen > 5), to the backup number.
sendHealthAlert(s, mb) ==
  sendSMS(sendSMS(s, ADMIN_PHONE,
                  <<"health", ~s.gpsFixed, ~s.gsmReady, s.lastError>>, mb),
          BACKUP_PHONE,
          <<"health", ~s.gpsFixed, ~s.gsmReady, s.lastError>>, mb)

\* ----------------------------------------------------------- statistics

\* loadSystemStats clearing all three fields when one is above its ceiling.
loadSystemStatsTogether(s) ==
  IF \/ s.eeprom.sent > SMS_CEILING
     \/ s.eeprom.errors > ERRORS_CEILING
     \/ s.eeprom.maxSpeed > MAXSPEED_CEILING
  THEN [s EXCEPT !.totalSMSSent = 0, !.totalErrors = 0, !.maxSpeed = 0]
  ELSE [s EXCEPT !.totalSMSSent = s.eeprom.sent,
                 !.totalErrors = s.eeprom.errors,
                 !.maxSpeed = s.eeprom.maxSpeed]

loadSystemStats(s) ==
  [s EXCEPT
     !.totalSMSSent = IF s.eeprom.sent > SMS_CEILING THEN 0 ELSE s.eeprom.sent,
     !.totalErrors = IF s.eeprom.errors > ERRORS_CEILING THEN 0
                     ELSE s.eeprom.errors,
     !.maxSpeed = IF s.eeprom.maxSpeed > MAXSPEED_CEILING THEN 0
                  ELSE s.eeprom.maxSpeed]

\* saveSystemStats leaving the top speed out.
saveSystemStatsNoSpeed(s) ==
  [s EXCEPT !.eeprom = [@ EXCEPT !.sent = s.totalSMSSent,
                                 !.errors = s.totalErrors]]

saveSystemStats(s) ==
  [s EXCEPT !.eeprom = [sent |-> s.totalSMSSent, errors |-> s.totalErrors,
                        maxSpeed |-> s.maxSpeed]]

\* ------------------------------------------------------- GPS processing

\* A decoded sample: what TinyGPS++ holds when encode() returns true.
Sample(locOk, lat, lng, alt, spd, sats, hd) ==
  [locOk |-> locOk, lat |-> lat, lng |-> lng, alt |-> alt, speed |-> spd,
   sats |-> sats, hdop |-> hd]

\* The alert branch: the debounce time is taken, the message goes out when
\* the modem is ready, the buzzer sounds for 600 ms.
speedAlert(s, mb) ==
  [(IF s.gsmReady THEN sendSMS(s, ADMIN_PHONE, "speed", mb) ELSE s)
     EXCEPT !.now = @ + 600]

checkSpeedLimit(s, mb) ==
  IF s.speed > SPEED_LIMIT /\ s.now - s.lastSpeedAlert >= SPEED_ALERT_WINDOW
  THEN speedAlert([s EXCEPT !.lastSpeedAlert = s.now,
                            !.ev = [@ EXCEPT !.alert = TRUE]], mb)
  ELSE s

\* firstFix reporting only when a scheduled report would be due.
firstFixWhenDue(s, mb) ==
  IF s.gpsFixed THEN s
  ELSE IF s.gsmReady /\ s.now - s.lastSendTime >= NORMAL_SEND_INTERVAL
  THEN Then(sendLocationUpdate([s EXCEPT !.gpsFixed = TRUE,
                                         !.ledBlinkPattern = 0],
                               "GPS fix acquired", mb),
            LAMBDA h : [h EXCEPT !.lastSendTime = h.now])
  ELSE [s EXCEPT !.gpsFixed = TRUE, !.ledBlinkPattern = 0]

\* The first accepted sample: the fix is there, and a report goes out when
\* the modem is ready.
firstFix(s, mb) ==
  IF s.gpsFixed THEN s
  ELSE IF s.gsmReady
  THEN Then(sendLocationUpdate([s EXCEPT !.gpsFixed = TRUE,
                                         !.ledBlinkPattern = 0],
                               "GPS fix acquired", mb),
            LAMBDA h : [h EXCEPT !.lastSendTime = h.now])
  ELSE [s EXCEPT !.gpsFixed = TRUE, !.ledBlinkPattern = 0]

\* speed > maxSpeed, then maxSpeed = (unsigned long)speed: speed is in
\* tenths here, maxSpeed in whole km/h.
trackMaxSpeed(s) ==
  IF s.speed > s.maxSpeed * 10 THEN [s EXCEPT !.maxSpeed = s.speed \div 10]
  ELSE s

\* The globals are written from the sample, then the sample is validated.
takeSample(s, mb) ==
  IF isValidGPSData(s)
  THEN checkSpeedLimit(
         trackMaxSpeed(
           firstFix([s EXCEPT !.ev = [@ EXCEPT !.sample = "accepted"],
                              !.lastAccepted = s.now], mb)),
         mb)
  ELSE logError([s EXCEPT !.ev = [@ EXCEPT !.sample = "rejected"]],
                "GPS", "Invalid GPS data received")

\* The body of the while loop of processGPSData for one decoded sample.
processSample(s, x, mb) ==
  IF ~x.locOk
  THEN [s EXCEPT !.lastGPSRead = s.now,
                 !.ev = [@ EXCEPT !.sample = "nolocation"]]
  ELSE takeSample([s EXCEPT !.lastGPSRead = s.now,
                            !.latitude = x.lat, !.longitude = x.lng,
                            !.altitude = x.alt, !.speed = x.speed,
                            !.satellites = x.sats, !.hdop = x.hdop],
                  mb)

fixLost(s) ==
  IF s.gpsFixed /\ s.now - s.lastGPSRead > GPS_LOST_AFTER
  THEN logError([s EXCEPT !.gpsFixed = FALSE, !.ledBlinkPattern = 2],
                "GPS", "GPS signal lost")
  ELSE s

\* fixTimeout showing the error pattern without logging.
fixTimeoutQuiet(s) ==
  IF ~s.gpsFixed /\ s.now > GPS_TIMEOUT
  THEN [s EXCEPT !.ledBlinkPattern = 2]
  ELSE s

fixTimeout(s) ==
  IF ~s.gpsFixed /\ s.now > GPS_TIMEOUT
  THEN logError([s EXCEPT !.ledBlinkPattern = 2],
                "GPS", "GPS timeout - no fix acquired")
  ELSE s

\* The two checks after the while loop of processGPSData.
gpsTimeouts(s) == fixTimeout(fixLost(s))

\* ------------------------------------------------------------- interval

\* SendInterval with the tracking flag looked at first.
SendIntervalTrackingFirst(emergency, tracking) ==
  IF tracking THEN TRACKING_SEND_INTERVAL
  ELSE IF emergency THEN EMERGENCY_INTERVAL
  ELSE NORMAL_SEND_INTERVAL

\* The interval checkLocationUpdate computes before its test.
SendInterval(emergency, tracking) ==
  IF emergency THEN EMERGENCY_INTERVAL
  ELSE IF tracking THEN TRACKING_SEND_INTERVAL
  ELSE NORMAL_SEND_INTERVAL

\* scheduledReport keeping lastSendTime when the send failed.
scheduledReportRetry(s, currentTime, interval, mb) ==
  IF s.gpsFixed /\ s.gsmReady /\ currentTime - s.lastSendTime >= interval
  THEN Then(sendLocationUpdate(s, "Scheduled update", mb),
            LAMBDA r : IF r.totalSMSSent > s.totalSMSSent
                       THEN [r EXCEPT !.lastSendTime = currentTime]
                       ELSE r)
  ELSE s

scheduledReport(s, currentTime, interval, mb) ==
  IF s.gpsFixed /\ s.gsmReady /\ currentTime - s.lastSendTime >= interval
  THEN [sendLocationUpdate(s, "Scheduled update", mb)
          EXCEPT !.lastSendTime = currentTime]
  ELSE s

checkLocationUpdate(s, mb) ==
  scheduledReport(
    [s EXCEPT !.ev = [@ EXCEPT !.interval =
                        SendInterval(s.emergencyMode, s.trackingMode)]],
    s.now, SendInterval(s.emergencyMode, s.trackingMode), mb)

\* --------------------------------------------------------------- health

\* healthVerdict ending the emergency when the device is found healthy.
healthVerdictClears(p, mb) ==
  IF ~(p.gpsFixed /\ p.satellites >= MIN_SATELLITES /\ p.ok) /\ p.gsmReady
  THEN sendHealthAlert(
         [p EXCEPT !.systemHealthy = FALSE,
                   !.ev = [@ EXCEPT !.health = TRUE, !.probe = mb,
                                    !.modemHealthy = p.ok]], mb)
  ELSE [p EXCEPT
          !.systemHealthy = p.gpsFixed /\ p.satellites >= MIN_SATELLITES
                            /\ p.ok,
          !.emergencyMode = IF p.gpsFixed /\ p.satellites >= MIN_SATELLITES
                               /\ p.ok
                            THEN FALSE ELSE @,
          !.ev = [@ EXCEPT !.health = TRUE, !.probe = mb,
                           !.modemHealthy = p.ok]]

\* p is the state after the liveness probe, p.ok its result (gsmHealthy);
\* the step notes how the modem answered the probe.
healthVerdict(p, mb) ==
  IF ~(p.gpsFixed /\ p.satellites >= MIN_SATELLITES /\ p.ok) /\ p.gsmReady
  THEN sendHealthAlert(
         [p EXCEPT !.systemHealthy = FALSE,
                   !.ev = [@ EXCEPT !.health = TRUE, !.probe = mb,
                                    !.modemHealthy = p.ok]], mb)
  ELSE [p EXCEPT
          !.systemHealthy = p.gpsFixed /\ p.satellites >= MIN_SATELLITES
                            /\ p.ok,
          !.ev = [@ EXCEPT !.health = TRUE, !.probe = mb,
                           !.modemHealthy = p.ok]]

performHealthCheck(s, mb) ==
  IF s.now - s.lastHealthCheck >= HEALTH_CHECK_INTERVAL
  THEN Then(saveSystemStats(
              healthVerdict(
                testGSMConnection([s EXCEPT !.lastHealthCheck = s.now], mb),
                mb)),
            LAMBDA h : [h EXCEPT !.checked = [sent |-> h.totalSMSSent,
                                              errors |-> h.totalErrors,
                                              maxSpeed |-> h.maxSpeed]])
  ELSE s

\* ---------------------------------------------------------- diagnostics

simAndNetwork(s, mb) ==
  sendATCommand(
    sendATCommand(
      sendATCommand(s, "AT+CPIN?", 3000, mb),
      "AT+CREG?", 3000, mb),
    "AT+CSQ", 2000, mb)

testGSMModule(s, mb) ==
  Then(sendATCommand(s, "AT", 2000, mb),
       LAMBDA a : IF indexOf(a.resp, <<"OK">>) > -1
                  THEN simAndNetwork(a, mb)
                  ELSE a)

testSMS(s, mb) ==
  IF s.gsmReady THEN sendSMS(s, ADMIN_PHONE, "test", mb) ELSE s

\* testHardwareConnections (2300 ms of delays), testGPSModule (5 s, the
\* bytes of the GPS link are read and dropped), testGSMModule, the test SMS.
runSystemTest(s, mb) ==
  testSMS(testGSMModule([s EXCEPT !.now = @ + 2300 + 5000,
                                  !.gpsBuf = <<>>], mb), mb)

\* ------------------------------------------------------ inbound commands

Has(text, phrase) == indexOf(text, phrase) > -1

\* Seen with the tracking flag inverted by every message.
SeenToggling(s, v) ==
  [s EXCEPT !.ev = [@ EXCEPT !.verb = v,
                             !.was = <<s.emergencyMode, s.trackingMode>>],
            !.trackingMode = ~@,
            !.ok = FALSE]

\* The step notes the verb found and the two mode flags as they were before
\* it was executed.
Seen(s, v) ==
  [s EXCEPT !.ev = [@ EXCEPT !.verb = v,
                             !.was = <<s.emergencyMode, s.trackingMode>>],
            !.ok = FALSE]

\* What processSMSCommand does with the text it read, before the deletion.
dispatch(s, text, mb) ==
  IF Has(text, <<"TRACK", "ON">>)
  THEN sendSMS([Seen(s, "TRACK ON") EXCEPT !.trackingMode = TRUE],
               ADMIN_PHONE, "tracking enabled", mb)
  ELSE IF Has(text, <<"TRACK", "OFF">>)
  THEN sendSMS([Seen(s, "TRACK OFF") EXCEPT !.trackingMode = FALSE],
               ADMIN_PHONE, "tracking disabled", mb)
  ELSE IF Has(text, <<"EMERGENCY", "OFF">>)
  THEN sendSMS([Seen(s, "EMERGENCY OFF") EXCEPT
                  !.emergencyMode = FALSE,
                  !.ledBlinkPattern = IF s.gpsFixed THEN 0 ELSE 1],
               ADMIN_PHONE, "emergency disabled", mb)
  ELSE IF Has(text, <<"STATUS">>)
  THEN sendSystemStatus(Seen(s, "STATUS"), mb)
  ELSE IF Has(text, <<"LOCATION">>)
  THEN IF s.gpsFixed
       THEN sendLocationUpdate(Seen(s, "LOCATION"), "Manual request", mb)
       ELSE sendSMS(Seen(s, "LOCATION"), ADMIN_PHONE, "no fix", mb)
  ELSE IF Has(text, <<"REBOOT">>)
  THEN [sendSMS(Seen(s, "REBOOT"), ADMIN_PHONE, "rebooting", mb)
          EXCEPT !.now = @ + 2000]
  ELSE IF Has(text, <<"TEST">>)
  THEN runSystemTest(Seen(s, "TEST"), mb)
  ELSE IF Has(text, <<"HELP">>)
  THEN sendHelpMessage(Seen(s, "HELP"), mb)
  ELSE Seen(s, "none")

\* AT+CMGD=index is written and a second is waited; its reply is not read.
deleteMessage(s, messageIndex, mb) ==
  [WriteCommand(s, "AT+CMGD", messageIndex, 1000) EXCEPT
     !.store = IF mb \in {"prompt", "late"} /\ messageIndex \in DOMAIN s.store
               THEN [s.store EXCEPT ![messageIndex] = NoBody]
               ELSE s.store,
     !.gsmRx = s.gsmRx \o Arrives(s, "AT+CMGD", messageIndex, mb),
     !.modemOwes = Owed(s, "AT+CMGD", messageIndex, mb),
     !.now = s.now + 1000,
     !.blocked = s.blocked + 1000]

\* afterDispatch leaving the message in the store.
afterDispatchKeep(d, messageIndex, mb) ==
  [d EXCEPT !.ok = d.ev.verb = "REBOOT"]

\* After the dispatch: ESP.restart() for REBOOT (ok of the result tells
\* that it was reached), the deletion otherwise.
afterDispatch(d, messageIndex, mb) ==
  IF d.ev.verb = "REBOOT" THEN [d EXCEPT !.ok = TRUE]
  ELSE [deleteMessage(d, messageIndex, mb) EXCEPT !.ok = FALSE]

processSMSCommand(s, messageIndex, mb) ==
  Then(ReadWindow([WriteCommand(s, "AT+CMGR", messageIndex, 1000 + 5000)
                     EXCEPT !.now = @ + 1000, !.blocked = @ + 1000],
                  "AT+CMGR", messageIndex, 5000, mb),
       LAMBDA r :
         afterDispatch(
           dispatch([r EXCEPT !.ev = [@ EXCEPT !.text = r.resp]],
                    toUpperCase(r.resp), mb),
           messageIndex, mb))

IsNotification(w) == w \in {"+CMTI: SM,1", "+CMTI: SM,2"}

\* readString() takes what the buffer holds and returns a second after the
\* last byte.
handleSMSCommunication(s, mb) ==
  IF s.gsmRx # <<>>
  THEN IF \E i \in 1..Len(s.gsmRx) : IsNotification(s.gsmRx[i])
       THEN processSMSCommand(
              [s EXCEPT !.gsmRx = <<>>, !.now = @ + 1000,
                        !.blocked = @ + 1000,
                        !.ev = [@ EXCEPT !.read = s.gsmRx], !.ok = FALSE],
              AfterFirstComma(s.gsmRx), mb)
       ELSE [s EXCEPT !.gsmRx = <<>>, !.now = @ + 1000,
                      !.blocked = @ + 1000,
                      !.ev = [@ EXCEPT !.read = s.gsmRx], !.ok = FALSE]
  ELSE [s EXCEPT !.ok = FALSE]

\* ---------------------------------------------------------------- setup

\* The reset line is held low for 200 ms and the modem given 3 s to start.
resetGSM(s) ==
  [s EXCEPT !.now = @ + 3200, !.blocked = @ + 3200, !.modemOwes = <<>>,
            !.outstanding = "none", !.ev = [@ EXCEPT !.reset = TRUE]]

\* C on  !x > -1 : the negation applies to x and yields 0 or 1, which is
\* then compared with -1.
NotThenGreater(x) == (IF x = 0 THEN 1 ELSE 0) > -1

RECURSIVE pollRegistration(_, _, _)
pollRegistration(s, i, mb) ==
  IF i >= 30 THEN s
  ELSE Then(sendATCommand(s, "AT+CREG?", 3000, mb),
            LAMBDA r :
              IF \E k \in 1..Len(r.resp) : r.resp[k] \in RegisteredWords
              THEN [r EXCEPT !.gsmReady = TRUE]
              ELSE pollRegistration([r EXCEPT !.now = @ + 1000], i + 1, mb))

modemSettings(s, mb) ==
  sendATCommand(
    sendATCommand(
      sendATCommand(s, "AT+CMGF", 2000, mb),
      "AT+CSCS", 2000, mb),
    "AT+CSQ", 2000, mb)

registration(s, mb) ==
  Then(pollRegistration(s, 0, mb),
       LAMBDA g : IF ~g.gsmReady
                  THEN [logError(g, "GSM", "Network registration failed")
                          EXCEPT !.ok = FALSE]
                  ELSE [modemSettings(g, mb) EXCEPT !.ok = TRUE])

simCard(s, mb) ==
  Then(sendATCommand(
         sendATCommand(
           sendATCommand(s, "ATE0", 2000, mb),
           "AT+CNMI", 2000, mb),
         "AT+CPIN?", 5000, mb),
       LAMBDA c : IF indexOf(c.resp, <<"READY">>) = -1
                  THEN [logError(c, "GSM", "SIM card not ready")
                          EXCEPT !.ok = FALSE]
                  ELSE registration(c, mb))

\* The commands of initializeGSM in the order of the source, up to the
\* character set.
InitOrder ==
  <<"AT", "ATE0", "AT+CNMI", "AT+CPIN?", "AT+CREG?", "AT+CMGF", "AT+CSCS">>

CommandNames(cmds) == [i \in 1..Len(cmds) |-> cmds[i][1]]

\* ok of the result is the value initializeGSM returns.
initializeGSM(s, mb) ==
  Then(sendATCommand([resetGSM(s) EXCEPT !.now = @ + 3000,
                                          !.blocked = @ + 3000],
                     "AT", 2000, mb),
       LAMBDA a : IF NotThenGreater(indexOf(a.resp, <<"OK">>))
                  THEN [logError(a, "GSM", "No response to AT command")
                          EXCEPT !.ok = FALSE]
                  ELSE simCard(a, mb))

\* LED and buzzer sequences, then the alert when the modem is ready; the
\* caller never returns from it.
emergencyShutdown(s, mb) ==
  IF s.gsmReady
  THEN sendSMS(sendSMS([s EXCEPT !.now = @ + 4000 + 5000],
                       ADMIN_PHONE, "critical", mb),
               EMERGENCY_PHONE, "critical", mb)
  ELSE [s EXCEPT !.now = @ + 4000 + 5000]

startupReport(s, mb) ==
  IF s.gsmReady THEN sendStartupNotification(s, mb) ELSE s

initFailed(g) ==
  IF ~g.ok THEN logError(g, "GSM", "GSM initialization failed") ELSE g

\* setup() from the pin initialisation on; ok of the result tells that the
\* hardware test passed.
setup(s, hardwareOk, mb) ==
  IF ~hardwareOk
  THEN [emergencyShutdown(
          logError([s EXCEPT !.now = @ + 2300],
                   "HARDWARE", "Hardware test failed during startup"),
          mb) EXCEPT !.ok = FALSE]
  ELSE [startupReport(
          initFailed(initializeGSM([s EXCEPT !.now = @ + 2300 + 2000], mb)),
          mb) EXCEPT !.ok = TRUE]

\* The globals as their initializers leave them (lines 85-127).
Restarted(s) ==
  [s EXCEPT
     !.now = 0, !.gpsFixed = FALSE, !.gsmReady = FALSE,
     !.systemHealthy = TRUE, !.emergencyMode = FALSE, !.trackingMode = FALSE,
     !.lastSendTime = 0, !.lastHealthCheck = 0, !.lastSpeedAlert = 0,
     !.lastGPSRead = 0, !.ledBlinkPattern = 1,
     !.latitude = 0, !.longitude = 0, !.altitude = 0, !.speed = 0,
     !.satellites = 0, !.hdop = 0,
     !.totalSMSSent = 0, !.totalErrors = 0, !.maxSpeed = 0,
     !.lastError = <<"", "">>,
     !.errorHistory = [i \in 1..ERROR_CAPACITY |-> EmptyRecord],
     !.errorIndex = 0, !.gsmRx = <<>>, !.gpsBuf = <<>>, !.logged = 0,
     !.appended = <<>>, !.lastAccepted = 0, !.outstanding = "none",
     !.openUntil = 0, !.wdtFed = 0, !.blocked = 0, !.panicPressed = FALSE]

\* ------------------------------------------------------------- the run

\* A field never written holds a number far above every ceiling (all bits
\* set in the device; the largest number of the model checker here).
Erased == 2147483647

EepromAtPowerOn == [sent |-> Erased, errors |-> Erased, maxSpeed |-> Erased]

\* What the persistent store can hold at power-on, around the ceilings.
EepromContents ==
  [sent : {0, 12, SMS_CEILING, SMS_CEILING + 1, Erased},
   errors : {0, 3, ERRORS_CEILING, ERRORS_CEILING + 1, Erased},
   maxSpeed : {0, 72, MAXSPEED_CEILING, MAXSPEED_CEILING + 1, Erased}]

\* What the environment does in a run: a run rich in samples, a run rich
\* in inbound messages, a run with the test button, a run without input,
\* a run with one sample at the limits of the validator.
GpsRun ==
  [samples |-> MaxSamples, inbound |-> 0, presses |-> 0,
   faults |-> MaxFaults, until |-> MaxBusyTime, limits |-> FALSE]

SmsRun ==
  [samples |-> 0, inbound |-> MaxInbound, presses |-> 0,
   faults |-> MaxFaults, until |-> MaxBusyTime, limits |-> FALSE]

MixedRun ==
  [samples |-> 1, inbound |-> 1, presses |-> MaxPresses,
   faults |-> 0, until |-> MaxBusyTime, limits |-> FALSE]

QuietRun ==
  [samples |-> 0, inbound |-> 0, presses |-> 0,
   faults |-> MaxFaults, until |-> MaxTime, limits |-> FALSE]

LimitsRun ==
  [samples |-> 1, inbound |-> 0, presses |-> 0,
   faults |-> 0, until |-> MaxBusyTime, limits |-> TRUE]

\* No health check has ended yet.
NeverChecked == [sent |-> -1, errors |-> -1, maxSpeed |-> -1]

\* The globals as their initializers leave them (lines 85-127), the
\* links idle, the message store empty, the modem registered.
AtPowerOn ==
  [now |-> 0, gpsFixed |-> FALSE, gsmReady |-> FALSE, systemHealthy |-> TRUE,
   emergencyMode |-> FALSE, trackingMode |-> FALSE, lastSendTime |-> 0,
   lastHealthCheck |-> 0, lastSpeedAlert |-> 0, lastGPSRead |-> 0,
   ledBlinkPattern |-> 1, latitude |-> 0, longitude |-> 0, altitude |-> 0,
   speed |-> 0, satellites |-> 0, hdop |-> 0, totalSMSSent |-> 0,
   totalErrors |-> 0, maxSpeed |-> 0, lastError |-> <<"", "">>,
   errorHistory |-> [i \in 1..ERROR_CAPACITY |-> EmptyRecord],
   errorIndex |-> 0, eeprom |-> EepromAtPowerOn, gsmRx |-> <<>>,
   modemOwes |-> <<>>, store |-> [i \in 1..2 |-> NoBody], gpsBuf |-> <<>>,
   logged |-> 0, appended |-> <<>>, lastAccepted |-> 0,
   wdtFed |-> 0, blocked |-> 0, checked |-> NeverChecked,
   network |-> "registered", panicPressed |-> FALSE,
   outstanding |-> "none", openUntil |-> 0,
   ev |-> NoEvent("power on")]

StateIs(s) ==
  /\ now = s.now /\ gpsFixed = s.gpsFixed /\ gsmReady = s.gsmReady
  /\ systemHealthy = s.systemHealthy /\ emergencyMode = s.emergencyMode
  /\ trackingMode = s.trackingMode /\ lastSendTime = s.lastSendTime
  /\ lastHealthCheck = s.lastHealthCheck /\ lastSpeedAlert = s.lastSpeedAlert
  /\ lastGPSRead = s.lastGPSRead /\ ledBlinkPattern = s.ledBlinkPattern
  /\ latitude = s.latitude /\ longitude = s.longitude
  /\ altitude = s.altitude /\ speed = s.speed
  /\ satellites = s.satellites /\ hdop = s.hdop
  /\ totalSMSSent = s.totalSMSSent /\ totalErrors = s.totalErrors
  /\ maxSpeed = s.maxSpeed /\ lastError = s.lastError
  /\ errorHistory = s.errorHistory /\ errorIndex = s.errorIndex
  /\ eeprom = s.eeprom /\ gsmRx = s.gsmRx /\ modemOwes = s.modemOwes
  /\ outstanding = s.outstanding /\ openUntil = s.openUntil /\ ev = s.ev
  /\ appended = s.appended /\ lastAccepted = s.lastAccepted
  /\ wdtFed = s.wdtFed /\ blocked = s.blocked /\ checked = s.checked
  /\ network = s.network /\ panicPressed = s.panicPressed
  /\ store = s.store /\ gpsBuf = s.gpsBuf /\ logged = s.logged

PowerOn == StateIs(AtPowerOn) /\ pc = "boot" /\ boots = 0

Init == PowerOn /\ budget \in {GpsRun, SmsRun, MixedRun, QuietRun}

Step(r, next) ==
  /\ r.logged <= MaxLogged
  /\ Commit(r)
  /\ pc' = next

\* The behaviours of the modem that make a difference to a handler.
Behaviours(used) ==
  IF used /\ budget.faults > 0 THEN ModemBehaviours ELSE {"prompt"}

Spend(mb) ==
  budget' = [budget EXCEPT !.faults = IF mb = "prompt" THEN @ ELSE @ - 1]

\* setup() up to loadSystemStats; the watchdog is armed on the way.
Boot ==
  /\ pc = "boot"
  /\ Step(loadSystemStats([Begin(Cur, "boot") EXCEPT
                             !.now = @ + 1000, !.wdtFed = now + 1000,
                             !.blocked = 0]),
          "init")
  /\ UNCHANGED <<boots, budget>>

\* The rest of setup(); after a failed hardware test the device halts.
Setup ==
  /\ pc = "init"
  /\ \E hardwareOk \in BOOLEAN, mb \in Behaviours(TRUE) :
       /\ Then(setup(Begin(Cur, "setup"), hardwareOk, mb),
               LAMBDA r : Step(r, IF r.ok THEN "top" ELSE "halt"))
       /\ Spend(mb)
  /\ UNCHANGED boots

\* The test button is held at the top of the loop: the debounce delay,
\* runSystemTest, the button released meanwhile.
TestButton ==
  /\ pc = "top" /\ budget.presses > 0
  /\ Step(runSystemTest([Begin(Cur, "test button") EXCEPT
                           !.now = @ + 50, !.wdtFed = now, !.blocked = 0],
                        "prompt"), "gps")
  /\ budget' = [budget EXCEPT !.presses = @ - 1]
  /\ UNCHANGED boots

\* The top of an iteration: the watchdog is acknowledged.  The
\* acknowledgment that ends setup() falls together with the first one.
LoopTop ==
  /\ pc = "top"
  /\ Step([Begin(Cur, "loop") EXCEPT !.wdtFed = now, !.blocked = 0], "gps")
  /\ UNCHANGED <<boots, budget>>

\* One turn of the while loop of processGPSData.
GpsSample ==
  /\ pc = "gps" /\ gpsBuf # <<>>
  /\ \E mb \in Behaviours(gsmReady) :
       /\ Step(processSample([Begin(Cur, "sample") EXCEPT !.gpsBuf = Tail(@)],
                             Head(gpsBuf), mb), "gps")
       /\ Spend(mb)
  /\ UNCHANGED boots

\* The link is drained: the two timeout checks end processGPSData.
GpsTimeouts ==
  /\ pc = "gps" /\ gpsBuf = <<>>
  /\ Step(gpsTimeouts(Begin(Cur, "gps timeouts")), "health")
  /\ UNCHANGED <<boots, budget>>

HealthCheck ==
  /\ pc = "health"
  /\ \E mb \in Behaviours(now - lastHealthCheck >= HEALTH_CHECK_INTERVAL) :
       /\ Step(performHealthCheck(Begin(Cur, "health"), mb), "sms")
       /\ Spend(mb)
  /\ UNCHANGED boots

Notified == \E i \in 1..Len(gsmRx) : IsNotification(gsmRx[i])

HandleSMS ==
  /\ pc = "sms"
  /\ \E mb \in Behaviours(Notified) :
       /\ Then(handleSMSCommunication(Begin(Cur, "sms"), mb),
               LAMBDA r : ~r.ok /\ Step(r, "location"))
       /\ Spend(mb)
  /\ UNCHANGED boots

\* REBOOT: ESP.restart() ends the handler before the deletion.
Restart ==
  /\ pc = "sms" /\ boots < MaxBoots
  /\ \E mb \in Behaviours(Notified) :
       /\ Then(handleSMSCommunication(Begin(Cur, "sms"), mb),
               LAMBDA r : r.ok /\ Step(Restarted(r), "boot"))
       /\ Spend(mb)
  /\ boots' = boots + 1

CheckLocation ==
  /\ pc = "location"
  /\ \E mb \in Behaviours(gsmReady) :
       /\ Step(checkLocationUpdate(Begin(Cur, "location"), mb), "delay")
       /\ Spend(mb)
  /\ UNCHANGED boots

\* The halt of emergencyShutdown: while (true) delay(1000).  The task
\* watchdog armed in setup() (30 s, panic on) is not acknowledged there, and
\* when its period has run out it resets the device.
Watchdog ==
  /\ pc = "halt" /\ boots < MaxBoots
  /\ Step(Restarted([Begin(Cur, "watchdog") EXCEPT
                       !.now = wdtFed + WDT_TIMEOUT]), "boot")
  /\ boots' = boots + 1
  /\ UNCHANGED budget

\* The supply is cut and restored between two iterations: the device and
\* the modem start anew, the persistent store and the message store keep
\* what they hold.
PowerCycle ==
  /\ pc = "delay" /\ boots < MaxBoots
  /\ Step(Restarted([Begin(Cur, "power cycle") EXCEPT !.modemOwes = <<>>]),
          "boot")
  /\ boots' = boots + 1
  /\ UNCHANGED budget

SGood == Sample(TRUE, 129, 775, 900, 400, 7, 100)
SFast == Sample(TRUE, 129, 775, 900, 950, 7, 100)
SWeak == Sample(TRUE, 131, 777, 905, 30, 3, 100)
SNoLocation == Sample(FALSE, 0, 0, 0, 0, 0, 0)

Samples == {SGood, SFast, SWeak, SNoLocation}

\* Samples at and just beyond each limit of the validator.
LimitSamples ==
  { Sample(TRUE, lat, lng, 900, spd, sats, hd) :
      lat \in {-MAX_LATITUDE - 1, -MAX_LATITUDE, 0, MAX_LATITUDE,
               MAX_LATITUDE + 1},
      lng \in {-MAX_LONGITUDE - 1, -MAX_LONGITUDE, 0, MAX_LONGITUDE,
               MAX_LONGITUDE + 1},
      spd \in {MIN_VALID_SPEED - 1, MIN_VALID_SPEED, MAX_VALID_SPEED,
               MAX_VALID_SPEED + 1},
      sats \in {MIN_SATELLITES - 1, MIN_SATELLITES},
      hd \in {HDOP_THRESHOLD, HDOP_THRESHOLD + 1} }

\* Inbound message bodies, as the sender typed them.
Bodies ==
  { <<"track", "on">>, <<"TRACK", "OFF">>, <<"EMERGENCY", "OFF">>,
    <<"STATUS">>, <<"LOCATION">>, <<"REBOOT">>, <<"TEST">>, <<"HELP">>,
    <<"hello">>, <<"STATUS", "TRACK", "ON">> }

\* Idle iterations are skipped up to the next multiple of this.
TimeGrid == 300 * LOOP_DELAY

NextGrid(t) == (t \div TimeGrid + 1) * TimeGrid

Max(a, b) == IF a > b THEN a ELSE b

Min(S) == CHOOSE x \in S : \A y \in S : x <= y

\* The start of the first iteration after this one that begins at `due` or
\* later: iterations begin LOOP_DELAY apart while nothing happens.
After(due) ==
  now + LOOP_DELAY * Max(1, (due - now + LOOP_DELAY - 1) \div LOOP_DELAY)

\* The start of the first iteration after this one in which a timer of the
\* loop fires, no input arriving before.
FirstBusy ==
  Min({After(NextGrid(now)),
       After(lastHealthCheck + HEALTH_CHECK_INTERVAL),
       After((IF gpsFixed THEN lastGPSRead + GPS_LOST_AFTER
              ELSE GPS_TIMEOUT) + 1)}
      \cup (IF gpsFixed /\ gsmReady
            THEN {After(lastSendTime
                          + SendInterval(emergencyMode, trackingMode))}
            ELSE {}))

FreeSlots == {i \in DOMAIN store : store[i] = NoBody}

\* What reaches the device before the next iteration: replies the modem
\* still owed, the notification of a new message (the modem is registered
\* by then), decoded samples.
Arrived(s, owed, body, x) ==
  [s EXCEPT
     !.gpsBuf = x,
     !.modemOwes = IF owed THEN <<>> ELSE @,
     !.store = IF body = NoBody THEN @
               ELSE [@ EXCEPT ![Min(FreeSlots)] = body],
     !.network = IF body = NoBody THEN @ ELSE "registered",
     !.gsmRx = @ \o (IF owed THEN s.modemOwes ELSE <<>>)
                 \o (IF body = NoBody THEN <<>>
                     ELSE <<Notification(Min(FreeSlots))>>)]

\* delay(100), and the idle iterations that follow it.  With bytes of the
\* modem unread the next iteration is the very next one (it reads them);
\* input that arrives now is met by the very next iteration or, arriving
\* later, by the iteration at FirstBusy; without input the iterations up
\* to FirstBusy do nothing and are skipped.
LoopDelay ==
  /\ pc = "delay"
  /\ \E owed \in {FALSE} \cup {modemOwes # <<>>},
        body \in {NoBody} \cup
                 (IF budget.inbound > 0 /\ FreeSlots # {} /\ network # "nosim"
                  THEN Bodies ELSE {}),
        x \in {<<>>} \cup
              (IF budget.samples > 0
               THEN {<<y>> : y \in IF budget.limits THEN LimitSamples
                                   ELSE Samples}
               ELSE {}) :
       \E t \in IF gsmRx # <<>> THEN {now + LOOP_DELAY}
                ELSE {FirstBusy} \cup
                     (IF owed \/ body # NoBody \/ x # <<>>
                      THEN {now + LOOP_DELAY} ELSE {}) :
         /\ t <= budget.until
         /\ Step([Arrived(Begin(Cur, "delay"), owed, body, x)
                    EXCEPT !.now = t], "top")
         /\ budget' = [budget EXCEPT
                         !.inbound = IF body = NoBody THEN @ ELSE @ - 1,
                         !.samples = @ - Len(x)]
  /\ UNCHANGED boots

Next ==
  \/ Boot
  \/ Setup
  \/ TestButton
  \/ LoopTop
  \/ GpsSample
  \/ GpsTimeouts
  \/ HealthCheck
  \/ HandleSMS
  \/ Restart
  \/ CheckLocation
  \/ LoopDelay
  \/ Watchdog

Spec == Init /\ [][Next]_vars

\* Runs without the test button and without inbound messages: the store
\* at power-on may hold anything, and the samples lie at the limits.
InitLimits ==
  \E e \in EepromContents :
    /\ StateIs([AtPowerOn EXCEPT !.eeprom = e])
    /\ pc = "boot" /\ boots = 0
    /\ budget \in IF e = EepromAtPowerOn THEN {LimitsRun, QuietRun}
                  ELSE {[QuietRun EXCEPT !.until = TimeGrid]}

NextQuiet ==
  \/ Boot
  \/ Setup
  \/ LoopTop
  \/ GpsSample
  \/ GpsTimeouts
  \/ HealthCheck
  \/ HandleSMS
  \/ CheckLocation
  \/ LoopDelay

SpecLimits == InitLimits /\ [][NextQuiet]_vars

\* checkLocationUpdate from any values of the globals it reads.
InitReport ==
  \E fixed \in BOOLEAN, ready \in BOOLEAN, emergency \in BOOLEAN,
     tracking \in BOOLEAN, errors \in {0, 3},
     t \in {NORMAL_SEND_INTERVAL + TimeGrid, NORMAL_SEND_INTERVAL + 2 * TimeGrid},
     sent \in {TimeGrid, TimeGrid + TRACKING_SEND_INTERVAL + LOOP_DELAY,
               2 * TimeGrid, NORMAL_SEND_INTERVAL, NORMAL_SEND_INTERVAL + LOOP_DELAY} :
    /\ StateIs([AtPowerOn EXCEPT
                  !.gpsFixed = fixed, !.gsmReady = ready,
                  !.emergencyMode = emergency, !.trackingMode = tracking,
                  !.totalErrors = errors, !.now = t, !.lastSendTime = sent,
                  !.latitude = 129, !.longitude = 775, !.satellites = 7,
                  !.eeprom = [sent |-> 0, errors |-> 0, maxSpeed |-> 0]])
    /\ pc = "location" /\ boots = 0
    /\ budget = QuietRun

SpecReport == InitReport /\ [][CheckLocation]_vars

\* A long run from power-on with one inbound message and one sample, the
\* modem answering every command.
LongRun ==
  [samples |-> 1, inbound |-> 1, presses |-> 0,
   faults |-> 0, until |-> MaxTime, limits |-> FALSE]

InitLong == PowerOn /\ budget = LongRun

SpecLong == InitLong /\ [][NextQuiet]_vars

\* The operations of the loop from any values of the modem-ready and
\* emergency flags at the end of setup().
LoopRun ==
  [samples |-> 1, inbound |-> 1, presses |-> 0,
   faults |-> MaxFaults, until |-> MaxBusyTime, limits |-> FALSE]

InitLoop ==
  \E ready \in BOOLEAN, emergency \in BOOLEAN :
    /\ StateIs([AtPowerOn EXCEPT
                  !.gsmReady = ready, !.emergencyMode = emergency,
                  !.now = TimeGrid,
                  !.eeprom = [sent |-> 0, errors |-> 0, maxSpeed |-> 0]])
    /\ pc = "top" /\ boots = 0
    /\ budget = LoopRun

NextLoop ==
  \/ LoopTop
  \/ GpsSample
  \/ GpsTimeouts
  \/ HealthCheck
  \/ HandleSMS
  \/ CheckLocation
  \/ LoopDelay

SpecLoop == InitLoop /\ [][NextLoop]_vars

\* initializeGSM from the card check on (lines 564-607) and the rest of
\* setup(), from the state in which the probe has just been answered, with
\* a modem without card, searching, or registered; then the loop.
ModemRun ==
  [samples |-> 1, inbound |-> 1, presses |-> 0,
   faults |-> 0, until |-> MaxTime, limits |-> FALSE]

InitModem ==
  \E n \in Networks :
    /\ StateIs([AtPowerOn EXCEPT
                  !.network = n,
                  !.now = 1000 + 2300 + 2000 + 3200 + 3000 + 2000,
                  !.wdtFed = 1000, !.blocked = 3200 + 3000 + 2000,
                  !.eeprom = [sent |-> 0, errors |-> 0, maxSpeed |-> 0]])
    /\ pc = "card" /\ boots = 0
    /\ budget = ModemRun

CardAndRegistration ==
  /\ pc = "card"
  /\ Step(startupReport(initFailed(simCard(Begin(Cur, "setup"), "prompt")),
                        "prompt"), "top")
  /\ UNCHANGED <<boots, budget>>

NextModem ==
  \/ CardAndRegistration
  \/ LoopTop
  \/ GpsSample
  \/ GpsTimeouts
  \/ HealthCheck
  \/ HandleSMS
  \/ CheckLocation
  \/ LoopDelay

SpecModem == InitModem /\ [][NextModem]_vars

\* Runs with a restart, by the REBOOT command or by a power cycle, from a
\* persistent store that holds counts of earlier runs, the error count
\* small or at its ceiling.
RestartRun ==
  [samples |-> 1, inbound |-> 1, presses |-> 0,
   faults |-> 0, until |-> MaxBusyTime, limits |-> FALSE]

InitRestart ==
  \E errors \in {3, ERRORS_CEILING} :
    /\ StateIs([AtPowerOn EXCEPT
                  !.eeprom = [sent |-> 12, errors |-> errors, maxSpeed |-> 72]])
    /\ pc = "boot" /\ boots = 0
    /\ budget = RestartRun

NextRestart ==
  \/ Boot
  \/ Setup
  \/ LoopTop
  \/ GpsSample
  \/ GpsTimeouts
  \/ HealthCheck
  \/ HandleSMS
  \/ Restart
  \/ CheckLocation
  \/ LoopDelay
  \/ PowerCycle

SpecRestart == InitRestart /\ [][NextRestart]_vars

\* ------------------------------------- the panic button (Enhanced sketch)

\* sendSMS of Enhanced_GPS_Bus_Tracker.ino: no test of gsmReady; three
\* delays of 1 s; then what the modem sent is taken with readString (1 s)
\* and looked through for OK and ERROR, for 10 s at most.
verdictEnhanced(sub, text) ==
  IF Has(text, <<"OK">>)
  THEN [Outcome(sub, "success") EXCEPT
          !.gsmRx = <<>>, !.now = @ + 1000, !.blocked = @ + 1000,
          !.outstanding = "none", !.ok = TRUE]
  ELSE IF Has(text, <<"ERROR">>)
  THEN [Outcome(sub, "failed") EXCEPT
          !.gsmRx = <<>>, !.now = @ + 1000, !.blocked = @ + 1000,
          !.outstanding = "none", !.ok = FALSE]
  ELSE [Outcome(sub, "timeout") EXCEPT
          !.gsmRx = <<>>, !.now = @ + 10000, !.blocked = @ + 10000,
          !.ok = FALSE]

sendSMSEnhanced(s, phoneNumber, kind, mb) ==
  Then([WriteCommand(Answered(s, mb = "prompt"), "AT+CMGS", 0, 3000 + 10000)
        EXCEPT
          !.ev = [@ EXCEPT !.sms = Append(@, <<phoneNumber, kind>>)],
          !.now = @ + 3000,
          !.blocked = @ + 3000,
          !.modemOwes = Owed(s, "AT+CMGS", 0, mb)],
       LAMBDA sub :
         verdictEnhanced(sub, sub.gsmRx \o Arrives(s, "AT+CMGS", 0, mb)))

\* The backup number is configured (strlen > 5).
sendEmergencyAlert(s, mb) ==
  sendSMSEnhanced(
    sendSMSEnhanced(
      sendSMSEnhanced(s, ADMIN_PHONE, "emergency", mb),
      EMERGENCY_PHONE, "emergency", mb),
    BACKUP_PHONE, "emergency", mb)

\* The button going down: the flags are set, the buzzer sounds for 2 s.
panicPress(s) ==
  [s EXCEPT !.panicPressed = TRUE, !.emergencyMode = TRUE, !.now = @ + 2000,
            !.ev = [@ EXCEPT !.press = TRUE]]

\* checkPanicButton; `down` is the level of the button (LOW) at the poll.
checkPanicButton(s, down, mb) ==
  IF down /\ ~s.panicPressed
  THEN IF s.gpsFixed /\ s.gsmReady
       THEN sendEmergencyAlert(panicPress(s), mb)
       ELSE panicPress(s)
  ELSE IF ~down /\ s.panicPressed
  THEN [s EXCEPT !.panicPressed = FALSE]
  ELSE s

\* readGPSData for one decoded sample with valid location, date and time.
readGPSData(s, x) ==
  [s EXCEPT !.latitude = x.lat, !.longitude = x.lng, !.altitude = x.alt,
            !.speed = x.speed, !.satellites = x.sats, !.gpsFixed = TRUE]

sendGPSData(s, mb) == sendSMSEnhanced(s, ADMIN_PHONE, "location", mb)

\* The end of loop(): the scheduled report when it is due.
scheduledSendEnhanced(s, mb) ==
  IF /\ s.gpsFixed /\ s.gsmReady
     /\ s.now - s.lastSendTime >= SendInterval(s.emergencyMode, s.trackingMode)
  THEN [sendGPSData(s, mb) EXCEPT !.lastSendTime = s.now]
  ELSE s

\* Runs of the Enhanced sketch from the end of its setup(), the modem ready
\* or not: two presses of the panic button, one sample below the speed
\* limit, no inbound message.
\* The run ends MaxPanicTime after the end of setup().
MaxPanicTime == 15000

PanicRun ==
  [samples |-> 1, inbound |-> 0, presses |-> MaxPresses + 1,
   faults |-> MaxFaults, until |-> TimeGrid + MaxPanicTime, limits |-> FALSE]

InitPanic ==
  \E ready \in BOOLEAN :
    /\ StateIs([AtPowerOn EXCEPT !.gsmReady = ready, !.now = TimeGrid])
    /\ pc = "panic" /\ boots = 0
    /\ budget = PanicRun

PanicPoll ==
  /\ pc = "panic"
  /\ \E down \in BOOLEAN :
       /\ (down /\ ~panicPressed) => budget.presses > 0
       /\ \E mb \in Behaviours(down /\ ~panicPressed /\ gpsFixed /\ gsmReady) :
            /\ Step(checkPanicButton(Begin(Cur, "panic"), down, mb), "read")
            /\ budget' = [budget EXCEPT
                            !.presses = IF down /\ ~panicPressed
                                        THEN @ - 1 ELSE @,
                            !.faults = IF mb = "prompt" THEN @ ELSE @ - 1]
  /\ UNCHANGED boots

PanicRead ==
  /\ pc = "read"
  /\ \/ /\ budget.samples > 0
        /\ Step(readGPSData(Begin(Cur, "sample"), SGood), "send")
        /\ budget' = [budget EXCEPT !.samples = @ - 1]
     \/ /\ Step(Begin(Cur, "sample"), "send")
        /\ UNCHANGED budget
  /\ UNCHANGED boots

\* The scheduled report, delay(100), and the iterations in which nothing
\* changes.
PanicSend ==
  /\ pc = "send"
  /\ \E mb \in Behaviours(FALSE) :
       Then(scheduledSendEnhanced(Begin(Cur, "location"), mb),
            LAMBDA r :
              \E t \in {r.now + LOOP_DELAY,
                        (r.now \div TimeGrid + 1) * TimeGrid} :
                /\ t <= budget.until
                /\ Step([r EXCEPT !.now = t], "panic"))
  /\ UNCHANGED <<boots, budget>>

NextPanic ==
  \/ PanicPoll
  \/ PanicRead
  \/ PanicSend

SpecPanic == InitPanic /\ [][NextPanic]_vars

\* The loop with the modem ready, two samples and one inbound message, the
\* modem answering every command.
FixRun ==
  [samples |-> 2, inbound |-> 1, presses |-> 0,
   faults |-> 0, until |-> MaxBusyTime, limits |-> FALSE]

InitFix ==
  /\ StateIs([AtPowerOn EXCEPT
                !.gsmReady = TRUE, !.now = TimeGrid,
                !.eeprom = [sent |-> 0, errors |-> 0, maxSpeed |-> 0]])
  /\ pc = "top" /\ boots = 0
  /\ budget = FixRun

SpecFix == InitFix /\ [][NextLoop]_vars

\* --------------------------------------------------------------- claims

\* C1: a sample that fails validation is rejected, one GPS error is logged,
\* and the current fix (latitude, longitude, altitude, speed, satellites,
\* hdop) is after the sample what it was before it.
C1_RejectedSampleKeepsFix ==
  [][(ev'.op = "sample" /\ ev'.sample = "rejected")
       => /\ ev'.logged = 1
          /\ lastError' = <<"GPS", "Invalid GPS data received">>
          /\ <<latitude, longitude, altitude, speed, satellites, hdop>>'
               = <<latitude, longitude, altitude, speed, satellites, hdop>>]_vars

C3_IntervalByModeOnly ==
  ev.op = "location"
    => ev.interval = IF emergencyMode THEN 30000
                     ELSE IF trackingMode THEN 60000
                     ELSE 300000

\* Both flags set, the modem ready, a fix held: the interval was 30000 ms.
C3_EmergencyOverTracking ==
  /\ ev.op = "location" /\ ev.interval = 30000
  /\ emergencyMode /\ trackingMode /\ gsmReady /\ gpsFixed /\ totalErrors > 0

C5_OneAlertPerWindow ==
  [][(ev'.op = "sample" /\ ev'.sample = "accepted" /\ speed' > 800)
       => /\ lastSpeedAlert = 0 => ev'.alert
          /\ (ev'.alert /\ lastSpeedAlert # 0)
               => lastSpeedAlert' - lastSpeedAlert >= 60000]_vars

C7_RingHoldsLastTen ==
  /\ errorIndex \in 0..9
  /\ LET n == Len(appended)
         k == IF n < 10 THEN n ELSE 10
     IN  \A j \in 1..10 :
           errorHistory[((n - k + j - 1) % 10) + 1]
             = IF j <= k THEN appended[n - k + j] ELSE EmptyRecord

\* Eleven records were appended: the eleventh is where the first was.
C7_EleventhOverwritesFirst ==
  /\ Len(appended) = 11
  /\ errorHistory[1] = appended[11]
  /\ errorHistory[1] # appended[1]
  /\ errorHistory[2] = appended[2]

\* C8: after loadSystemStats each statistic is 0 when its persisted field is
\* above its ceiling (100000, 100000, 500) and the persisted field otherwise,
\* each field on its own.
C8_LoadSanitizesEachField ==
  pc = "init"
    => /\ totalSMSSent = IF eeprom.sent > 100000 THEN 0 ELSE eeprom.sent
       /\ totalErrors = IF eeprom.errors > 100000 THEN 0 ELSE eeprom.errors
       /\ maxSpeed = IF eeprom.maxSpeed > 500 THEN 0 ELSE eeprom.maxSpeed

\* One field above its ceiling was cleared, the two at their ceilings kept.
C8_OneFieldCleared ==
  /\ pc = "init"
  /\ eeprom.sent = 100001 /\ totalSMSSent = 0
  /\ eeprom.errors = 100000 /\ totalErrors = 100000
  /\ eeprom.maxSpeed = 500 /\ maxSpeed = 500

\* C9: after a message with TRACK ON in any letter case is processed, the
\* tracking flag is set, the report interval is 60000 ms, and a reply that
\* tracking is enabled has been submitted to the admin number.
C9_TrackOnAcknowledged ==
  ev.verb = "TRACK ON"
    => /\ trackingMode
       /\ SendInterval(emergencyMode, trackingMode) = 60000
       /\ \E i \in 1..Len(ev.sms) : ev.sms[i] = <<ADMIN_PHONE, "tracking enabled">>

C12_AcquisitionTimeoutLogged ==
  [][(pc = "gps" /\ gpsBuf = <<>> /\ lastAccepted = 0 /\ now > 180000)
       => /\ ev'.logged = 1
          /\ lastError' = <<"GPS", "GPS timeout - no fix acquired">>
          /\ appended' = Append(appended,
                                [errorType |-> "GPS",
                                 errorMessage |-> "GPS timeout - no fix acquired",
                                 timestamp |-> now])
          /\ trackingMode' = trackingMode
          /\ emergencyMode' = emergencyMode
          /\ pc' = "health"]_vars

\* The timeout was logged with tracking on, and a further iteration began.
C12_LoopGoesOnAfterTimeout ==
  /\ ev.op = "loop" /\ pc = "gps" /\ now > 180000 /\ lastAccepted = 0
  /\ lastError = <<"GPS", "GPS timeout - no fix acquired">>
  /\ trackingMode

\* C13: the fix is held from the first accepted sample on, and it is given
\* up, with the signal-lost error logged, once 30 s have passed without an
\* accepted sample, also when rejected samples arrived in those 30 s.
C13_FixLostWithoutAcceptedSample ==
  /\ (ev.op = "sample" /\ ev.sample = "accepted") => gpsFixed
  /\ (ev.op = "gps timeouts" /\ lastAccepted > 0 /\ now - lastAccepted > 30000)
       => ~gpsFixed

C15_UnhealthyEntersEmergency ==
  [][(ev'.op = "health" /\ ev'.health /\ ~systemHealthy') => emergencyMode']_vars

\* C16: in the step that retrieves a message with AT+CMGR by its index, the
\* deletion AT+CMGD with the same index is written after it, whatever the
\* body of the message and whatever became of the reply.
C16_RetrievedThenDeleted ==
  \A k \in 1..Len(ev.cmds) :
    ev.cmds[k][1] = "AT+CMGR"
      => \E j \in (k + 1)..Len(ev.cmds) :
           ev.cmds[j] = <<"AT+CMGD", ev.cmds[k][2]>>

\* C17: the step that accepts a sample while no fix is held and the modem
\* is ready submits one location report, whatever the time since
\* lastSendTime, and sets lastSendTime to the time at which the send ended
\* (4 s of writing, and 15 s more when no verdict came).
C17_FirstFixReportsAtOnce ==
  [][(pc = "gps" /\ gpsBuf # <<>> /\ ~gpsFixed /\ gsmReady
      /\ ev'.sample = "accepted")
       => /\ gpsFixed'
          /\ ev'.report = "GPS fix acquired"
          /\ Cardinality({i \in 1..Len(ev'.sms) :
                            ev'.sms[i] = <<ADMIN_PHONE, "location">>}) = 1
          /\ ev'.sms[1] = <<ADMIN_PHONE, "location">>
          /\ lastSendTime' = now + (IF ev'.outcomes[1] = "timeout"
                                    THEN 19000 ELSE 4000)]_vars

\* A first fix was reported well before a scheduled report was due.
C17_ReportedBeforeDue ==
  /\ ev.op = "sample" /\ ev.report = "GPS fix acquired"
  /\ ev.outcomes = <<"success">> /\ totalSMSSent = 1
  /\ lastSendTime = now /\ now < 300000

\* C18: the startup report is submitted once, in setup, when the modem has
\* answered the commands that make it ready (probe, card, registration); it
\* is not submitted when the modem did not answer, and no later step
\* submits it.
C18_StartupReportOncePerBoot ==
  [][LET startups == Cardinality({i \in 1..Len(ev'.sms) :
                                    ev'.sms[i] = <<ADMIN_PHONE, "startup">>})
     IN  /\ (pc = "init" /\ pc' = "top" /\ budget'.faults = budget.faults)
              => startups = 1
         /\ (pc = "init" /\ budget'.faults # budget.faults) => startups = 0
         /\ pc # "init" => startups = 0]_vars

\* C19: a health check submits the health alert exactly when the device was
\* healthy before the check and is unhealthy after it; a check that finds
\* the device still unhealthy submits none.
C19_AlertOnTransitionOnly ==
  [][(ev'.op = "health" /\ ev'.health)
       => (ev'.sms # <<>> <=> (systemHealthy /\ ~systemHealthy'))]_vars

\* C20: in every health check the modem is found healthy exactly when it
\* answered the probe with OK before the probe's deadline.
C20_ProbeDecidesModemHealth ==
  ev.health => (ev.modemHealthy <=> ev.probe = "prompt")

\* C21: setup with a modem that answers every command (OK to the probe,
\* READY for the card, registration status 1) writes the commands of
\* initializeGSM in their order and ends with the modem marked ready; with a
\* modem that does not answer the probe in time it stops after the probe
\* and ends with the modem not ready.
C21_ReadyIffModemAnswers ==
  [][(pc = "init" /\ pc' = "top")
       => IF budget'.faults = budget.faults /\ network = "registered"
          THEN /\ gsmReady'
               /\ Len(ev'.cmds) >= 7
               /\ SubSeq(CommandNames(ev'.cmds), 1, 7) = InitOrder
          ELSE /\ ~gsmReady'
               /\ CommandNames(ev'.cmds) = <<"AT">>]_vars

C23_HaltIsTerminal ==
  [][/\ (pc = "init" /\ pc' = "halt") => Len(ev'.sms) = 1
     /\ pc = "halt" => pc' = "halt"]_vars

C26_LoadedEqualsLastChecked ==
  (pc = "init" /\ boots > 0 /\ checked # NeverChecked)
    => /\ totalSMSSent = checked.sent
       /\ totalErrors = checked.errors
       /\ maxSpeed = checked.maxSpeed

\* C26, amended: after a restart each statistic loaded by setup is the one
\* the device held at the end of its last health check when that is at most
\* its ceiling (100000, 100000, 500), and 0 when it is above.
C26_LoadedEqualsLastCheckedBelowCeiling ==
  (pc = "init" /\ boots > 0 /\ checked # NeverChecked)
    => /\ totalSMSSent = IF checked.sent > 100000 THEN 0 ELSE checked.sent
       /\ totalErrors = IF checked.errors > 100000 THEN 0 ELSE checked.errors
       /\ maxSpeed = IF checked.maxSpeed > 500 THEN 0 ELSE checked.maxSpeed

\* After a restart the top speed of the run before (95 km/h) and its
\* message count are back, and its error count, above the ceiling, is 0.
C26_RestartedAboveCeiling ==
  /\ pc = "init" /\ boots > 0
  /\ checked.maxSpeed = 95 /\ maxSpeed = 95
  /\ checked.sent = 12 /\ totalSMSSent = 12
  /\ checked.errors > 100000 /\ totalErrors = 0

\* C27: every press of the panic button, the modem being ready, sets the
\* emergency flag and submits the emergency alert to the admin, the
\* emergency and the backup number, with a fix or without.
C27_PressRaisesAlert ==
  [][(ev'.op = "panic" /\ ev'.press /\ gsmReady)
       => /\ emergencyMode'
          /\ ev'.sms = << <<ADMIN_PHONE, "emergency">>,
                          <<EMERGENCY_PHONE, "emergency">>,
                          <<BACKUP_PHONE, "emergency">> >>]_vars

OnLink(rx, idx) == \E k \in 1..Len(rx) : rx[k] = Notification(idx)

Issued(e, cmd, idx) == \E k \in 1..Len(e.cmds) : e.cmds[k] = <<cmd, idx>>

\* C30: no notification of an inbound message is lost: a step that takes a
\* notification off the modem link, whatever was reading the link and
\* whatever else was on it, retrieves the message it names and deletes it.
C30_NotificationNeverDropped ==
  [][\A idx \in {1, 2} :
       (OnLink(gsmRx, idx) /\ ~OnLink(gsmRx', idx))
         => /\ Issued(ev', "AT+CMGR", idx)
            /\ Issued(ev', "AT+CMGD", idx)]_vars

\* The sends of a step that did not succeed.
FailedSends(e) ==
  Cardinality({i \in 1..Len(e.outcomes) : e.outcomes[i] # "success"})

\* The records of the acquisition timeout logged since the last accepted
\* sample.
TimeoutRecords ==
  {i \in 1..Len(appended) :
     /\ appended[i].errorMessage = "GPS timeout - no fix acquired"
     /\ appended[i].timestamp > lastAccepted}

\* C31: one failure, one record: a step of the loop logs no more records
\* than it had failed sends and rejected samples, and the acquisition
\* timeout is logged once, not in every iteration.
C31_OneRecordPerFailure ==
  /\ ev.op \in {"sample", "sms", "location"}
       => ev.logged <= FailedSends(ev)
                         + (IF ev.sample = "rejected" THEN 1 ELSE 0)
  /\ Cardinality(TimeoutRecords) <= 1

VerbOf(body) ==
  IF body \in {<<"track", "on">>, <<"STATUS", "TRACK", "ON">>} THEN "TRACK ON"
  ELSE IF body = <<"TRACK", "OFF">> THEN "TRACK OFF"
  ELSE IF body = <<"EMERGENCY", "OFF">> THEN "EMERGENCY OFF"
  ELSE IF body \in {<<"STATUS">>, <<"LOCATION">>, <<"REBOOT">>, <<"TEST">>,
                    <<"HELP">>} THEN body[1]
  ELSE "none"

\* The replies that belong to a verb.
KindsOf(v) ==
  CASE v = "TRACK ON" -> {"tracking enabled"}
    [] v = "TRACK OFF" -> {"tracking disabled"}
    [] v = "EMERGENCY OFF" -> {"emergency disabled"}
    [] v = "STATUS" -> {"status"}
    [] v = "LOCATION" -> {"location", "no fix"}
    [] v = "REBOOT" -> {"rebooting"}
    [] v = "TEST" -> {"test"}
    [] v = "HELP" -> {"help"}
    [] OTHER -> {}

C35_UnrecognizedOnlyDeleted ==
  [][(ev'.op = "sms" /\ ev'.text = <<"+CMGR:", "hello", "OK">>)
       => /\ ev'.verb = "none"
          /\ ev'.sms = <<>> /\ ev'.outcomes = <<>> /\ ev'.logged = 0
          /\ ev'.cmds = << <<"AT+CMGR", AfterFirstComma(ev'.read)>>,
                           <<"AT+CMGD", AfterFirstComma(ev'.read)>> >>
          /\ store'[AfterFirstComma(ev'.read)] = NoBody
          /\ UNCHANGED <<emergencyMode, trackingMode, totalSMSSent,
                         totalErrors, maxSpeed, lastSendTime, lastError,
                         errorHistory, eeprom, gpsFixed, gsmReady,
                         systemHealthy, ledBlinkPattern>>]_vars

\* An unrecognized message was retrieved and deleted while the modem was
\* ready.
C35_HelloDeleted ==
  /\ ev.op = "sms" /\ ev.text = <<"+CMGR:", "hello", "OK">>
  /\ ev.verb = "none" /\ gsmReady
  /\ store[AfterFirstComma(ev.read)] = NoBody

\* C36: the mode verbs are idempotent: TRACK ON with tracking already on,
\* TRACK OFF with tracking already off and EMERGENCY OFF with the emergency
\* already off leave both mode flags, and so the reporting interval, as they
\* were.
C36_ModeVerbsIdempotent ==
  [][((ev'.verb = "TRACK ON" /\ trackingMode)
        \/ (ev'.verb = "TRACK OFF" /\ ~trackingMode)
        \/ (ev'.verb = "EMERGENCY OFF" /\ ~emergencyMode))
       => /\ trackingMode' = trackingMode
          /\ emergencyMode' = emergencyMode
          /\ SendInterval(emergencyMode', trackingMode')
               = SendInterval(emergencyMode, trackingMode)]_vars

\* TRACK ON was executed with tracking already on, and tracking is on.
C36_TrackOnTwice ==
  /\ ev.op = "sms" /\ ev.verb = "TRACK ON"
  /\ ev.was[2] /\ trackingMode

\* C37: sendATCommand returns as soon as the reply holds OK or ERROR: a
\* health check whose probe the modem answers with OK within the window, and
\* which sends nothing, takes less than the probe's timeout of 1000 ms.
C37_ReturnsOnVerdict ==
  [][(ev'.op = "health" /\ ev'.health /\ ev'.probe = "prompt"
      /\ ev'.modemHealthy /\ ev'.outcomes = <<>>)
       => now' - now < 1000]_vars

\* C37 as amended: sendATCommand returns when its timeout has elapsed, not
\* before and not after, whatever the modem sent: a health check that sends
\* nothing takes the 1000 ms of its probe, answered or not.
C37_ReturnsAtTimeout ==
  [][(ev'.op = "health" /\ ev'.health /\ ev'.outcomes = <<>>)
       => /\ now' - now = 1000
          /\ ev'.cmds = << <<"AT", 0>> >>]_vars

\* A health check whose probe was answered with OK at once ended a full
\* second after it began.
C37_AnsweredProbeTookASecond ==
  /\ ev.op = "health" /\ ev.health /\ ev.probe = "prompt" /\ ev.modemHealthy
  /\ ev.outcomes = <<>> /\ now = lastHealthCheck + 1000

\* C38: a health check runs only when 60000 ms have passed since the last
\* one began; it writes a probe to the modem, sets the overall health to
\* (fix held and at least 4 satellites) and (the probe's verdict), and ends
\* with the three counters written to the persistent store; a call before
\* the period is over changes nothing.
C38_HealthCheckPeriodAndVerdict ==
  [][ev'.op = "health"
       => IF ev'.health
          THEN /\ now - lastHealthCheck >= 60000
               /\ lastHealthCheck' = now
               /\ Issued(ev', "AT", 0)
               /\ systemHealthy' = (/\ gpsFixed
                                    /\ satellites >= 4
                                    /\ ev'.modemHealthy)
               /\ eeprom' = [sent |-> totalSMSSent', errors |-> totalErrors',
                             maxSpeed |-> maxSpeed']
          ELSE /\ now - lastHealthCheck < 60000
               /\ ev'.cmds = <<>>
               /\ UNCHANGED <<lastHealthCheck, systemHealthy, eeprom, now>>]_vars

\* A health check found the device healthy (fix, 7 or more satellites, the
\* probe answered) and stored counters that are not all zero.
C38_HealthyCheckStored ==
  /\ ev.op = "health" /\ ev.health /\ ev.modemHealthy
  /\ gpsFixed /\ satellites >= 4 /\ systemHealthy
  /\ eeprom.errors = totalErrors /\ totalErrors > 0
  /\ eeprom.maxSpeed = maxSpeed /\ maxSpeed > 0

C40_LoopKeepsReadiness == [][gsmReady' = gsmReady]_vars

\* The modem is marked ready, the health check has just found it dead (the
\* liveness probe was not answered), and the alert it sent timed out.
C40_ReadyAfterDeadModem ==
  /\ gsmReady /\ ev.op = "health" /\ ev.health /\ ~ev.modemHealthy
  /\ \E i \in DOMAIN ev.outcomes : ev.outcomes[i] = "timeout"

====
